---- MODULE Spec2Model ----
(***************************************************************************)
(* The to-do application: the task store, that is the Express handlers of  *)
(* the backend (src/unnamed/part_000) over the single file tasks.json, and *)
(* the page that uses it (src/script.js).                                  *)
(*                                                                         *)
(* Every handler is an async function; it is cut at its await points,      *)
(* which are the file-system calls (fs.access, fs.readFile, fs.writeFile)  *)
(* on the server and the fetch calls in the page.  The code between two    *)
(* awaits runs to completion on the event loop and is one atomic step.     *)
(* Several requests can be in flight, each at its own await.               *)
(*                                                                         *)
(* Spec       requests handled one at a time, every storage fault          *)
(* SpecRace   NumReq requests handled concurrently, every storage fault    *)
(* SpecClient one page and the server, requests in flight together         *)
(* SpecRender renderTasks on every cached array                            *)
(***************************************************************************)
EXTENDS Integers, Sequences, FiniteSets, TLC

\* ------------------------------------------------------------------ bounds
NumReq   == 2      \* requests that can be in flight together
MaxTasks == 2      \* tasks the collection can grow to
MaxClock == 2      \* last millisecond of the wall clock
MaxCache == 3      \* tasks the client's array can grow to
MaxGestures == 4   \* requests the user of one page starts

Reqs == 1..NumReq

\* ------------------------------------------------------------- JS values
\* A text is a sequence of characters; " " stands for the white space
\* String.prototype.trim removes.
Strings ==
    {<<>>, <<" ">>, <<" ", " ">>,
     <<"a">>, <<" ", "a">>, <<"a", " ">>, <<" ", "a", " ">>,
     <<" ", " ", "a">>}

\* req.body.text: a JS value with its typeof tag.
JsValue(t, n, s) == [type |-> t, num |-> n, str |-> s]

Bodies ==
    {JsValue("undefined", 0, <<>>), JsValue("null", 0, <<>>),
     JsValue("number", 0, <<>>), JsValue("number", 7, <<>>)}
    \cup {JsValue("string", 0, s) : s \in Strings}

RECURSIVE TrimStart(_)
TrimStart(s) ==
    IF s = <<>> THEN <<>>
    ELSE IF Head(s) = " " THEN TrimStart(Tail(s)) ELSE s

RECURSIVE TrimEnd(_)
TrimEnd(s) ==
    IF s = <<>> THEN <<>>
    ELSE IF s[Len(s)] = " " THEN TrimEnd(SubSeq(s, 1, Len(s) - 1)) ELSE s

\* String.prototype.trim
Trim(s) == TrimEnd(TrimStart(s))

\* !text : undefined, null, 0 and "" are falsy
Falsy(v) ==
    \/ v.type \in {"undefined", "null"}
    \/ v.type = "number" /\ v.num = 0
    \/ v.type = "string" /\ v.str = <<>>

\* The check without its last test, text.trim() === ''.
InvalidTextNoTrim(v) ==
    \/ Falsy(v)
    \/ v.type # "string"

\* if (!text || typeof text !== 'string' || text.trim() === '')
InvalidText(v) ==
    \/ Falsy(v)
    \/ v.type # "string"
    \/ Trim(v.str) = <<>>

\* ------------------------------------------------------------------ tasks
\* id: Date.now().toString() + Math.random().toString(36).substr(2, 9).
\* Date.now() has a fixed number of digits, so the concatenation is the
\* pair (millisecond, suffix).
\* The suffixes Math.random() can produce.
Rnds == {1, 2}

NoId == [ms |-> 0, rnd |-> 0]

\* The ids of the tasks of a list.
IdsOf(ts) == {ts[i].id : i \in 1..Len(ts)}

NewTask(id, text, created, updated) ==
    [id |-> id, text |-> text, completed |-> FALSE,
     createdAt |-> created, updatedAt |-> updated]

\* tasks.findIndex(task => task.id === id), 1-based; 0 stands for -1
RECURSIVE FindFrom(_, _, _)
FindFrom(ts, id, i) ==
    IF i > Len(ts) THEN 0
    ELSE IF ts[i].id = id THEN i ELSE FindFrom(ts, id, i + 1)

FindIndex(ts, id) == FindFrom(ts, id, 1)

\* Array.prototype.filter is SelectSeq.
\* tasks.filter(task => task.id !== id)
WithoutId(ts, id) == LET Keep(t) == t.id # id IN SelectSeq(ts, Keep)

\* tasks.filter(task => task.completed)
CompletedTasks(ts) == LET Keep(t) == t.completed IN SelectSeq(ts, Keep)

\* tasks.filter(task => !task.completed)
ActiveTasks(ts) == LET Keep(t) == ~t.completed IN SelectSeq(ts, Keep)

\* The toggle with completed = true in place of the negation.
ToggleAtSet(ts, i, now) ==
    [ts EXCEPT ![i] = [@ EXCEPT !.completed = TRUE, !.updatedAt = now]]

\* The toggle refreshing both time stamps.
ToggleAtCreated(ts, i, now) ==
    [ts EXCEPT ![i] = [@ EXCEPT !.completed = ~@, !.updatedAt = now,
                                !.createdAt = now]]

\* tasks[taskIndex].completed = !...; tasks[taskIndex].updatedAt = now
ToggleAt(ts, i, now) ==
    [ts EXCEPT ![i] = [@ EXCEPT !.completed = ~@, !.updatedAt = now]]

\* ---------------------------------------------------------- renderTasks
\* The compare function of the sort.  createdAt is kept in milliseconds:
\* toISOString writes a time to the millisecond and new Date reads it
\* back, so new Date(b.createdAt) - new Date(a.createdAt) is the
\* difference of the two.
\* The compare function with the two dates exchanged: oldest first.
CompareOldestFirst(a, b) ==
    IF a.completed # b.completed
    THEN IF a.completed THEN 1 ELSE -1
    ELSE a.createdAt - b.createdAt

\* (a, b) => { if (a.completed !== b.completed) return a.completed ? 1 : -1;
\*             return new Date(b.createdAt) - new Date(a.createdAt); }
Compare(a, b) ==
    IF a.completed # b.completed
    THEN IF a.completed THEN 1 ELSE -1
    ELSE b.createdAt - a.createdAt

\* Array.prototype.sort is a stable sort by the compare function: it is
\* computed by insertion, a task going behind the tasks it does not have
\* to precede.
RECURSIVE Insert(_, _)
Insert(s, t) ==
    IF s = <<>> THEN <<t>>
    ELSE IF Compare(s[Len(s)], t) > 0
         THEN Append(Insert(SubSeq(s, 1, Len(s) - 1), t), s[Len(s)])
         ELSE Append(s, t)

RECURSIVE Sort(_)
Sort(ts) ==
    IF ts = <<>> THEN <<>>
    ELSE Insert(Sort(SubSeq(ts, 1, Len(ts) - 1)), ts[Len(ts)])

\* const sortedTasks = [...tasks].sort(..): the tasks of the list items
\* renderTasks appends, none for the empty array.
SortedTasks(ts) == IF Len(ts) = 0 THEN <<>> ELSE Sort(ts)

\* ------------------------------------------------------------------- file
\* Content of tasks.json.  "missing": no file; "blank": empty or white
\* space only; "garbage": JSON.parse throws on it; "object": valid JSON
\* that is not an array (JSON.parse returns a plain object); "list": the
\* JSON array of tasks.
FileOf(k, ts) == [kind |-> k, tasks |-> ts]

EmptyList == FileOf("list", <<>>)

\* The collection a file content stands for.
Collection(f) == IF f.kind = "list" THEN f.tasks ELSE <<>>

\* JSON.parse(data) of a present, non-blank file; "throw" is the SyntaxError
JsonParse(f) ==
    CASE f.kind = "list"   -> [kind |-> "list", tasks |-> f.tasks]
      [] f.kind = "object" -> [kind |-> "object", tasks |-> <<>>]
      [] OTHER             -> [kind |-> "throw", tasks |-> <<>>]

\* What a failed fs.writeFile can leave behind: the open failed (nothing
\* changed), the file was truncated, or it was partly written.
FailedWrite(f) == {f, FileOf("blank", <<>>), FileOf("garbage", <<>>)}

\* ---------------------------------------------------------------- replies
\* What res.status(..).json(..) sends.  kind names the shape of the body:
\* "list"/"object" (GET), "task" (POST, PUT: tasks holds the one task),
\* "summary" (DELETE: cleared and remaining), "error".
Reply(st, k, ts, c, n) ==
    [status |-> st, kind |-> k, tasks |-> ts, cleared |-> c, remaining |-> n]

NoReply == Reply(0, "none", <<>>, 0, 0)

Error(st) == Reply(st, "error", <<>>, 0, 0)

NoValue == JsValue("undefined", 0, <<>>)

NoLoad == [kind |-> "none", tasks |-> <<>>]

\* ------------------------------------------------------------------ state
VARIABLES
    file,      \* content of tasks.json
    clock,     \* wall clock, in milliseconds
    pc,        \* per request: where its handler is suspended
    op,        \* per request: the route it matched
    text,      \* per request: req.body.text
    id,        \* per request: req.params.id
    loaded,    \* per request: what readTasks returned to the handler
    towrite,   \* per request: the array the handler passes to writeTasks
    resp,      \* per request: the reply (sent when pc = "done")
    pre,       \* history: the file content when the request arrived
    alone,     \* history: no other request was in flight with this one
    ioerr,     \* history: an fs call of readTasks was rejected with an I/O
               \* error (not by the file being missing)
    saves,     \* history: writeTasks calls this request has completed
    toggled,   \* history: the last toggles that ran alone, one after another
    loads,     \* history: readTasks calls of this request that returned
    inits,     \* history: fs.writeFile calls this request made in readTasks
    early,     \* history: this request saved while another one, having
               \* loaded, had not saved yet
    cache,     \* client: the global array tasks of script.js
    display,   \* client: the tasks of the <li> items of taskList, in order
    notice,    \* client: what the last handler showed the user
    clr,       \* client: the clearAll in progress
    failed,    \* history: a request of the client has failed
    gestures   \* history: the gestures of the user that started a request

\* The state of the client (script.js).
cvars == <<cache, display, notice, clr, failed, gestures>>

\* The state of the server and of the file system.
svars == <<file, clock, pc, op, text, id, loaded, towrite, resp,
           pre, alone, ioerr, saves, toggled, loads, inits, early>>

vars == <<file, clock, pc, op, text, id, loaded, towrite, resp,
          pre, alone, ioerr, saves, toggled, loads, inits, early,
          cache, display, notice, clr, failed, gestures>>

NoToggle == [n |-> 0, id |-> NoId, before |-> <<>>]

\* No clearAll is running.  Of a running one: arr is the array its for-of
\* loop iterates, i the position of the loop, same tells that the global
\* tasks is still that array, req is the request the loop awaits (0
\* between two fetches), bad tells that a DELETE of the loop was answered
\* with a status that is not 2xx.
NoClear == [on |-> FALSE, arr |-> <<>>, i |-> 0, same |-> FALSE, req |-> 0,
            bad |-> FALSE]

\* The store before the first request.
InitStore ==
    /\ \/ file = EmptyList
       \/ file \in {FileOf(k, <<>>) :
                       k \in {"missing", "blank", "garbage", "object"}}
    /\ clock = 0
    /\ pc = [r \in Reqs |-> "idle"]
    /\ op = [r \in Reqs |-> "none"]
    /\ text = [r \in Reqs |-> NoValue]
    /\ id = [r \in Reqs |-> NoId]
    /\ loaded = [r \in Reqs |-> NoLoad]
    /\ towrite = [r \in Reqs |-> <<>>]
    /\ resp = [r \in Reqs |-> NoReply]
    /\ pre = [r \in Reqs |-> FileOf("missing", <<>>)]
    /\ alone = [r \in Reqs |-> FALSE]
    /\ ioerr = [r \in Reqs |-> FALSE]
    /\ saves = [r \in Reqs |-> 0]
    /\ toggled = NoToggle
    /\ loads = [r \in Reqs |-> 0]
    /\ inits = [r \in Reqs |-> 0]
    /\ early = [r \in Reqs |-> FALSE]

\* The page before its load event: let tasks = [], an empty taskList.
InitPage ==
    /\ cache = <<>>
    /\ display = <<>>
    /\ notice = "none"
    /\ clr = NoClear
    /\ failed = FALSE
    /\ gestures = 0

Init == InitStore /\ InitPage

InFlight(r) == pc[r] \notin {"idle", "done"}

\* History kept when request r arrives: it runs alone if every other
\* request has been answered and delivered; a request it overlaps with no
\* longer runs alone.
Arrive(r) ==
    /\ pre' = [pre EXCEPT ![r] = file]
    /\ alone' = [q \in Reqs |->
                    IF q = r THEN \A o \in Reqs \ {r} : pc[o] = "idle"
                    ELSE FALSE]
    /\ UNCHANGED <<ioerr, saves, toggled, loads, inits, early>>

\* The handler calls readTasks, which awaits fs.access.
CallReadTasks(r, o, v, i) ==
    /\ pc[r] = "idle"
    /\ pc' = [pc EXCEPT ![r] = "access"]
    /\ op' = [op EXCEPT ![r] = o]
    /\ text' = [text EXCEPT ![r] = v]
    /\ id' = [id EXCEPT ![r] = i]
    /\ Arrive(r)
    /\ UNCHANGED <<file, clock, loaded, towrite, resp>>

\* GET /api/tasks
GetTasks(r) == CallReadTasks(r, "list", NoValue, NoId)

\* Tasks the collection can still take, counting the adds in flight.
Room ==
    Len(Collection(file))
        + Cardinality({q \in Reqs : op[q] = "add" /\ InFlight(q)}) < MaxTasks

\* POST /api/tasks with req.body.text = v
PostTask(r, v) ==
    IF InvalidText(v)
    THEN /\ pc[r] = "idle"
         /\ pc' = [pc EXCEPT ![r] = "done"]
         /\ op' = [op EXCEPT ![r] = "add"]
         /\ text' = [text EXCEPT ![r] = v]
         /\ resp' = [resp EXCEPT ![r] = Error(400)]
         /\ Arrive(r)
         /\ UNCHANGED <<file, clock, id, loaded, towrite>>
    ELSE /\ Room
         /\ CallReadTasks(r, "add", v, NoId)

\* PUT /api/tasks/:id
PutTask(r, i) == CallReadTasks(r, "toggle", NoValue, i)

\* DELETE /api/tasks/:id
DeleteTask(r, i) == CallReadTasks(r, "delete", NoValue, i)

\* DELETE /api/tasks/clear/completed
ClearCompleted(r) == CallReadTasks(r, "clear", NoValue, NoId)

\* ------------------------------------------- the handlers after readTasks
\* Each handler resumes with L, the value readTasks returned, and runs to
\* its reply or to the await in writeTasks.
Answer(r, rep) ==
    /\ pc' = [pc EXCEPT ![r] = "done"]
    /\ resp' = [resp EXCEPT ![r] = rep]
    /\ UNCHANGED <<towrite, clock>>

\* The reply is kept in resp and sent once fs.writeFile has resolved.
CallWriteTasks(r, ts, rep) ==
    /\ pc' = [pc EXCEPT ![r] = "write"]
    /\ towrite' = [towrite EXCEPT ![r] = ts]
    /\ resp' = [resp EXCEPT ![r] = rep]

\* GET: console.log(tasks.length); res.json(tasks)
GetTasksLoaded(r, L) == Answer(r, Reply(200, L.kind, L.tasks, 0, 0))

\* POST: builds newTask with three readings of the clock, tasks.push,
\* writeTasks.  tasks.push of a non-array throws a TypeError: 500.
PostTaskLoaded(r, L) ==
    IF L.kind # "list" THEN Answer(r, Error(500))
    ELSE \E rnd \in Rnds, d1 \in {0, 1}, d2 \in {0, 1} :
            LET now     == clock
                created == now + d1
                updated == created + d2
                newTask == NewTask([ms |-> now, rnd |-> rnd],
                                   Trim(text[r].str), created, updated)
            IN  /\ updated <= MaxClock
                /\ clock' = updated
                /\ CallWriteTasks(r, Append(L.tasks, newTask),
                                  Reply(201, "task", <<newTask>>, 0, 0))

\* PUT: findIndex, 404 or toggle in place, writeTasks
PutTaskLoaded(r, L) ==
    IF L.kind # "list" THEN Answer(r, Error(500))
    ELSE LET taskIndex == FindIndex(L.tasks, id[r])
             tasks     == ToggleAt(L.tasks, taskIndex, clock)
         IN  IF taskIndex = 0 THEN Answer(r, Error(404))
             ELSE /\ CallWriteTasks(r, tasks,
                        Reply(200, "task", <<tasks[taskIndex]>>, 0, 0))
                  /\ UNCHANGED clock

\* DELETE: filter, 404 if nothing was filtered out, writeTasks
DeleteTaskLoaded(r, L) ==
    IF L.kind # "list" THEN Answer(r, Error(500))
    ELSE LET filteredTasks == WithoutId(L.tasks, id[r])
         IN  IF Len(L.tasks) = Len(filteredTasks) THEN Answer(r, Error(404))
             ELSE /\ CallWriteTasks(r, filteredTasks,
                        Reply(200, "summary", <<>>, 0, Len(filteredTasks)))
                  /\ UNCHANGED clock

\* The handler without its early return: it saves in every case.
ClearCompletedAlways(r, L) ==
    IF L.kind # "list" THEN Answer(r, Error(500))
    ELSE LET completedTasks == CompletedTasks(L.tasks)
             activeTasks    == ActiveTasks(L.tasks)
         IN  /\ CallWriteTasks(r, activeTasks,
                    Reply(200, "summary", <<>>,
                          Len(completedTasks), Len(activeTasks)))
             /\ UNCHANGED clock

\* DELETE clear/completed: partition, no write if nothing is completed
ClearCompletedLoaded(r, L) ==
    IF L.kind # "list" THEN Answer(r, Error(500))
    ELSE LET completedTasks == CompletedTasks(L.tasks)
             activeTasks    == ActiveTasks(L.tasks)
         IN  IF Len(completedTasks) = 0
             THEN Answer(r, Reply(200, "summary", <<>>, 0, Len(L.tasks)))
             ELSE /\ CallWriteTasks(r, activeTasks,
                        Reply(200, "summary", <<>>,
                              Len(completedTasks), Len(activeTasks)))
                  /\ UNCHANGED clock

\* readTasks returns L to the handler of request r.
Resume(r, L) ==
    /\ loaded' = [loaded EXCEPT ![r] = L]
    /\ loads' = [loads EXCEPT ![r] = @ + 1]
    /\ CASE op[r] = "list"   -> GetTasksLoaded(r, L)
         [] op[r] = "add"    -> PostTaskLoaded(r, L)
         [] op[r] = "toggle" -> PutTaskLoaded(r, L)
         [] op[r] = "delete" -> DeleteTaskLoaded(r, L)
         [] op[r] = "clear"  -> ClearCompletedLoaded(r, L)
    /\ UNCHANGED <<op, text, id, pre, alone, saves, early>>

ListOf(ts) == [kind |-> "list", tasks |-> ts]

\* --------------------------------------------------------------- readTasks
\* await fs.access(TASKS_FILE): resolves if the file is there, rejects with
\* ENOENT if it is not, and can be rejected by an I/O error in any case
\* (the third disjunct).  The bare catch takes every rejection for a
\* missing file.
Access(r) ==
    /\ pc[r] = "access"
    /\ \/ /\ file.kind # "missing"
          /\ pc' = [pc EXCEPT ![r] = "readFile"]
          /\ UNCHANGED ioerr
       \/ /\ file.kind = "missing"
          /\ pc' = [pc EXCEPT ![r] = "initWrite"]
          /\ UNCHANGED ioerr
       \/ /\ pc' = [pc EXCEPT ![r] = "initWrite"]
          /\ ioerr' = [ioerr EXCEPT ![r] = TRUE]
    /\ UNCHANGED <<file, clock, op, text, id, loaded, towrite, resp,
                   pre, alone, saves, toggled, loads, inits, early>>

\* await fs.writeFile(TASKS_FILE, JSON.stringify([])); return [].  A
\* rejection (the second disjunct) goes to the outer catch, which returns
\* [] as well.
InitWrite(r) ==
    /\ pc[r] = "initWrite"
    /\ \/ file' = EmptyList
       \/ file' \in FailedWrite(file)
    /\ toggled' = IF file' = file THEN toggled ELSE NoToggle
    /\ inits' = [inits EXCEPT ![r] = @ + 1]
    /\ Resume(r, ListOf(<<>>))
    /\ UNCHANGED ioerr

\* What readTasks makes of the data fs.readFile resolved with.
Parsed(f) ==
    IF f.kind = "blank" THEN ListOf(<<>>)
    ELSE IF JsonParse(f).kind = "throw" THEN ListOf(<<>>)
    ELSE JsonParse(f)

\* await fs.readFile(TASKS_FILE, 'utf8'), then the rest of readTasks.  A
\* rejection (the second disjunct) goes to the catch, which returns [].
ReadFile(r) ==
    /\ pc[r] = "readFile"
    /\ \/ /\ file.kind # "missing"
          /\ Resume(r, Parsed(file))
          /\ UNCHANGED ioerr
       \/ /\ Resume(r, ListOf(<<>>))
          /\ ioerr' = [ioerr EXCEPT ![r] = TRUE]
    /\ UNCHANGED <<file, toggled, inits>>

\* -------------------------------------------------------------- writeTasks
\* History of the toggles that ran alone: n counts the latest toggles of
\* one id with no other change of the file among them (up to 2), before
\* is the collection as it was before the latest of them.
ToggleDone(r) ==
    IF op[r] = "toggle" /\ alone[r]
    THEN [n      |-> IF toggled.n >= 1 /\ toggled.id = id[r] THEN 2 ELSE 1,
          id     |-> id[r],
          before |-> Collection(file)]
    ELSE NoToggle

\* History: request r saves while another request, having loaded the
\* collection, is about to save its own array.
Overtakes(r) == \E q \in Reqs \ {r} : pc[q] = "write"

\* A save that, for an Add, appends the new task to what the file holds
\* at the time of the write instead of overwriting it with the array.
WriteFileAppend(r) ==
    /\ pc[r] = "write"
    /\ \/ /\ file' = IF op[r] = "add"
                     THEN FileOf("list", Append(Collection(file),
                                                towrite[r][Len(towrite[r])]))
                     ELSE FileOf("list", towrite[r])
          /\ toggled' = ToggleDone(r)
          /\ saves' = [saves EXCEPT ![r] = @ + 1]
          /\ early' = [early EXCEPT ![r] = Overtakes(r)]
          /\ UNCHANGED resp
       \/ /\ file' \in FailedWrite(file)
          /\ toggled' = IF file' = file THEN toggled ELSE NoToggle
          /\ resp' = [resp EXCEPT ![r] = Error(500)]
          /\ UNCHANGED <<saves, early>>
    /\ pc' = [pc EXCEPT ![r] = "done"]
    /\ UNCHANGED <<clock, op, text, id, loaded, towrite, pre, alone, ioerr,
                   loads, inits>>

\* writeTasks with a catch that logs and does not rethrow: the handler goes
\* on to its success reply.
WriteFileQuiet(r) ==
    /\ pc[r] = "write"
    /\ \/ /\ file' = FileOf("list", towrite[r])
          /\ toggled' = ToggleDone(r)
          /\ saves' = [saves EXCEPT ![r] = @ + 1]
          /\ early' = [early EXCEPT ![r] = Overtakes(r)]
       \/ /\ file' \in FailedWrite(file)
          /\ toggled' = IF file' = file THEN toggled ELSE NoToggle
          /\ UNCHANGED <<saves, early>>
    /\ pc' = [pc EXCEPT ![r] = "done"]
    /\ UNCHANGED <<clock, op, text, id, loaded, towrite, resp, pre, alone,
                   ioerr, loads, inits>>

\* await fs.writeFile(TASKS_FILE, JSON.stringify(tasks, null, 2)); a
\* rejection (the second disjunct) is rethrown and the handler's catch
\* answers 500.
WriteFile(r) ==
    /\ pc[r] = "write"
    /\ \/ /\ file' = FileOf("list", towrite[r])
          /\ toggled' = ToggleDone(r)
          /\ saves' = [saves EXCEPT ![r] = @ + 1]
          /\ early' = [early EXCEPT ![r] = Overtakes(r)]
          /\ UNCHANGED resp
       \/ /\ file' \in FailedWrite(file)
          /\ toggled' = IF file' = file THEN toggled ELSE NoToggle
          /\ resp' = [resp EXCEPT ![r] = Error(500)]
          /\ UNCHANGED <<saves, early>>
    /\ pc' = [pc EXCEPT ![r] = "done"]
    /\ UNCHANGED <<clock, op, text, id, loaded, towrite, pre, alone, ioerr,
                   loads, inits>>

\* The reply has been sent; the request is over.
Deliver(r) ==
    /\ pc[r] = "done"
    /\ pc' = [pc EXCEPT ![r] = "idle"]
    /\ op' = [op EXCEPT ![r] = "none"]
    /\ text' = [text EXCEPT ![r] = NoValue]
    /\ id' = [id EXCEPT ![r] = NoId]
    /\ loaded' = [loaded EXCEPT ![r] = NoLoad]
    /\ towrite' = [towrite EXCEPT ![r] = <<>>]
    /\ resp' = [resp EXCEPT ![r] = NoReply]
    /\ pre' = [pre EXCEPT ![r] = FileOf("missing", <<>>)]
    /\ alone' = [alone EXCEPT ![r] = FALSE]
    /\ ioerr' = [ioerr EXCEPT ![r] = FALSE]
    /\ saves' = [saves EXCEPT ![r] = 0]
    /\ loads' = [loads EXCEPT ![r] = 0]
    /\ inits' = [inits EXCEPT ![r] = 0]
    /\ early' = [early EXCEPT ![r] = FALSE]
    /\ UNCHANGED <<file, clock, toggled>>

\* A millisecond passes.
Tick ==
    /\ clock < MaxClock
    /\ clock' = clock + 1
    /\ UNCHANGED <<file, pc, op, text, id, loaded, towrite, resp,
                   pre, alone, ioerr, saves, toggled, loads, inits, early>>

\* The ids a client asks for: those of the stored tasks and one that no
\* task has.
IdInputs == IdsOf(Collection(file)) \cup {NoId}

\* The requests of one user who waits for each reply before the next
\* request: one request is in flight at a time, and it is request 1.
Next ==
    \/ GetTasks(1) /\ UNCHANGED cvars
    \/ \E v \in Bodies : PostTask(1, v) /\ UNCHANGED cvars
    \/ \E i \in IdInputs : PutTask(1, i) /\ UNCHANGED cvars
    \/ \E i \in IdInputs : DeleteTask(1, i) /\ UNCHANGED cvars
    \/ ClearCompleted(1) /\ UNCHANGED cvars
    \/ \E r \in Reqs : Access(r) /\ UNCHANGED cvars
    \/ \E r \in Reqs : InitWrite(r) /\ UNCHANGED cvars
    \/ \E r \in Reqs : ReadFile(r) /\ UNCHANGED cvars
    \/ \E r \in Reqs : WriteFile(r) /\ UNCHANGED cvars
    \/ \E r \in Reqs : Deliver(r) /\ UNCHANGED cvars
    \/ Tick /\ UNCHANGED cvars

Spec == Init /\ [][Next]_vars

\* The text a client sends: addTask trims the input and sends no empty one.
Sent == JsValue("string", 0, <<"a">>)

\* The tasks the store holds after a run of requests within millisecond
\* 0: added, and toggled or not.
Stored ==
    {[NewTask([ms |-> 0, rnd |-> n], <<"a">>, 0, 0) EXCEPT !.completed = c] :
        n \in Rnds, c \in BOOLEAN}

\* The collections of at most MaxTasks of them.
Collections ==
    UNION {[1..n -> Stored] : n \in 0..MaxTasks}

\* The store as earlier requests have left it, and no request in flight.
InitRace ==
    /\ \/ file \in {FileOf("list", ts) : ts \in Collections}
       \/ file \in {FileOf(k, <<>>) :
                       k \in {"missing", "blank", "garbage", "object"}}
    /\ clock = 0
    /\ pc = [r \in Reqs |-> "idle"]
    /\ op = [r \in Reqs |-> "none"]
    /\ text = [r \in Reqs |-> NoValue]
    /\ id = [r \in Reqs |-> NoId]
    /\ loaded = [r \in Reqs |-> NoLoad]
    /\ towrite = [r \in Reqs |-> <<>>]
    /\ resp = [r \in Reqs |-> NoReply]
    /\ pre = [r \in Reqs |-> FileOf("missing", <<>>)]
    /\ alone = [r \in Reqs |-> FALSE]
    /\ ioerr = [r \in Reqs |-> FALSE]
    /\ saves = [r \in Reqs |-> 0]
    /\ toggled = NoToggle
    /\ loads = [r \in Reqs |-> 0]
    /\ inits = [r \in Reqs |-> 0]
    /\ early = [r \in Reqs |-> FALSE]
    /\ InitPage

\* NumReq requests handled concurrently, one in each slot: a request can
\* arrive while another is suspended at an await, and the file system
\* calls complete in any order.  The replies are kept.
NextRace ==
    \/ \E r \in Reqs : GetTasks(r) /\ UNCHANGED cvars
    \/ \E r \in Reqs : PostTask(r, Sent) /\ UNCHANGED cvars
    \/ \E r \in Reqs, i \in IdInputs : PutTask(r, i) /\ UNCHANGED cvars
    \/ \E r \in Reqs, i \in IdInputs : DeleteTask(r, i) /\ UNCHANGED cvars
    \/ \E r \in Reqs : ClearCompleted(r) /\ UNCHANGED cvars
    \/ \E r \in Reqs : Access(r) /\ UNCHANGED cvars
    \/ \E r \in Reqs : InitWrite(r) /\ UNCHANGED cvars
    \/ \E r \in Reqs : ReadFile(r) /\ UNCHANGED cvars
    \/ \E r \in Reqs : WriteFile(r) /\ UNCHANGED cvars
    \/ Tick /\ UNCHANGED cvars

SpecRace == InitRace /\ [][NextRace]_vars

\* ----------------------------------------------------------- the client
\* The handlers of script.js.  Each is cut at its await fetch(..): the
\* first part ends when the request has reached the server, the second
\* part runs when the reply has come back (or the fetch was rejected) and
\* ends the request.
\* What the user can have typed into taskInput.
Typed == {<<" ">>, <<" ", "a">>}

\* response.ok
Ok(rep) == rep.status \in 200..299

\* The fetch was rejected: the reply never came.
Rejected == Reply(0, "rejected", <<>>, 0, 0)

\* The user starts a request.
Gesture ==
    /\ gestures < MaxGestures
    /\ gestures' = gestures + 1

\* A handler changes the array tasks in place (push, tasks[i] = ..): a
\* clearAll iterating that array sees the change.
InPlace(arr) ==
    /\ cache' = arr
    /\ display' = SortedTasks(arr)
    /\ clr' = IF clr.on /\ clr.same THEN [clr EXCEPT !.arr = arr] ELSE clr

\* A handler assigns a new array to tasks: a clearAll in progress goes on
\* iterating the old one.
Rebind(arr) ==
    /\ cache' = arr
    /\ display' = SortedTasks(arr)
    /\ clr' = IF clr.on THEN [clr EXCEPT !.same = FALSE] ELSE clr

\* catch (error) { console.error(..); alert(..) }
Alert ==
    /\ notice' = "alert"
    /\ UNCHANGED <<cache, display, clr>>

\* A handler that alerts and returns before any fetch.
AlertOnly ==
    /\ notice' = "alert"
    /\ UNCHANGED <<svars, cache, display, clr, failed, gestures>>

\* The reply to request r is taken by the handler that awaits it.
Taken(r) ==
    /\ Deliver(r)
    /\ failed' = (failed \/ ~Ok(resp[r]))
    /\ UNCHANGED gestures

\* fetchTasks(): the page's load event
fetchTasks(r) ==
    /\ Gesture
    /\ GetTasks(r)
    /\ UNCHANGED <<cache, display, notice, clr, failed>>

\* tasks = await response.json(); renderTasks(), which throws on a body
\* that is not an array; the catch alerts and empties the array.
fetchTasksThen(r) ==
    /\ pc[r] = "done" /\ op[r] = "list"
    /\ Taken(r)
    /\ IF Ok(resp[r]) /\ resp[r].kind = "list"
       THEN Rebind(resp[r].tasks) /\ UNCHANGED notice
       ELSE Rebind(<<>>) /\ notice' = "alert"

\* addTask() with taskInput.value = v
addTask(r, v) ==
    IF Trim(v) = <<>> THEN AlertOnly
    ELSE /\ Gesture
         /\ Len(cache) + Cardinality({q \in Reqs : op[q] = "add"}) < MaxCache
         /\ PostTask(r, JsValue("string", 0, Trim(v)))
         /\ UNCHANGED <<cache, display, notice, clr, failed>>

\* tasks.push(newTask)
PushTask(arr, newTask) == Append(arr, newTask)

addTaskThen(r) ==
    /\ pc[r] = "done" /\ op[r] = "add"
    /\ Taken(r)
    /\ IF Ok(resp[r])
       THEN InPlace(PushTask(cache, resp[r].tasks[1])) /\ UNCHANGED notice
       ELSE Alert

\* toggleTask(id), from the checkbox of a displayed task
toggleTask(r, i) ==
    /\ i \in IdsOf(display)
    /\ Gesture
    /\ PutTask(r, i)
    /\ UNCHANGED <<cache, display, notice, clr, failed>>

\* The replacement at position 1, whatever the id.
ReplaceFirst(arr, i, updatedTask) ==
    IF arr = <<>> THEN arr ELSE [arr EXCEPT ![1] = updatedTask]

\* const taskIndex = tasks.findIndex(task => task.id === id);
\* if (taskIndex !== -1) tasks[taskIndex] = updatedTask
ReplaceTask(arr, i, updatedTask) ==
    LET taskIndex == FindIndex(arr, i)
    IN  IF taskIndex # 0 THEN [arr EXCEPT ![taskIndex] = updatedTask]
        ELSE arr

toggleTaskThen(r) ==
    /\ pc[r] = "done" /\ op[r] = "toggle"
    /\ Taken(r)
    /\ IF Ok(resp[r])
       THEN InPlace(ReplaceTask(cache, id[r], resp[r].tasks[1]))
            /\ UNCHANGED notice
       ELSE Alert

\* deleteTask(id), from the button of a displayed task, confirmed
deleteTask(r, i) ==
    /\ i \in IdsOf(display)
    /\ Gesture
    /\ DeleteTask(r, i)
    /\ UNCHANGED <<cache, display, notice, clr, failed>>

\* tasks = tasks.filter(task => task.id !== id); showNotification(..)
deleteTaskThen(r) ==
    /\ pc[r] = "done" /\ op[r] = "delete" /\ clr.req # r
    /\ Taken(r)
    /\ IF Ok(resp[r])
       THEN Rebind(WithoutId(cache, id[r])) /\ notice' = "notification"
       ELSE Alert

\* clearCompleted(), confirmed
clearCompleted(r) ==
    IF Len(CompletedTasks(cache)) = 0 THEN AlertOnly
    ELSE /\ Gesture
         /\ ClearCompleted(r)
         /\ UNCHANGED <<cache, display, notice, clr, failed>>

\* tasks = tasks.filter(task => !task.completed); showNotification(..)
clearCompletedThen(r) ==
    /\ pc[r] = "done" /\ op[r] = "clear"
    /\ Taken(r)
    /\ IF Ok(resp[r])
       THEN Rebind(ActiveTasks(cache)) /\ notice' = "notification"
       ELSE Alert

\* clearAll(), confirmed: the for-of loop starts and awaits its first
\* DELETE.  One clearAll runs at a time.
clearAll(r) ==
    IF Len(cache) = 0 THEN AlertOnly
    ELSE /\ ~clr.on
         /\ Gesture
         /\ DeleteTask(r, cache[1].id)
         /\ clr' = [on |-> TRUE, arr |-> cache, i |-> 1, same |-> TRUE,
                    req |-> r, bad |-> FALSE]
         /\ UNCHANGED <<cache, display, notice, failed>>

\* The loop has a reply, whose status it does not look at, and goes to
\* the next task of the array; after the last one: tasks = [],
\* renderTasks(), showNotification(..).  A rejected fetch ends the loop in
\* the catch.
clearAllThen(r) ==
    /\ pc[r] = "done" /\ clr.on /\ clr.req = r
    /\ Taken(r)
    /\ IF resp[r] = Rejected
       THEN /\ notice' = "alert"
            /\ clr' = NoClear
            /\ UNCHANGED <<cache, display>>
       ELSE IF clr.i + 1 <= Len(clr.arr)
       THEN /\ clr' = [clr EXCEPT !.i = @ + 1, !.req = 0,
                                  !.bad = @ \/ ~Ok(resp[r])]
            /\ UNCHANGED <<cache, display, notice>>
       ELSE /\ cache' = <<>>
            /\ display' = SortedTasks(<<>>)
            /\ notice' = "notification"
            /\ clr' = NoClear

\* The next fetch of the loop reaches the server.
clearAllNext(r) ==
    /\ clr.on /\ clr.req = 0
    /\ DeleteTask(r, clr.arr[clr.i].id)
    /\ clr' = [clr EXCEPT !.req = r]
    /\ UNCHANGED <<cache, display, notice, failed, gestures>>

\* The network fails after the server has answered: the fetch is rejected.
Drop(r) ==
    /\ pc[r] = "done" /\ resp[r] # Rejected
    /\ resp' = [resp EXCEPT ![r] = Rejected]
    /\ UNCHANGED <<file, clock, pc, op, text, id, loaded, towrite,
                   pre, alone, ioerr, saves, toggled, loads, inits, early>>

\* The file system call of request r that completes in this step is not
\* rejected by an I/O error: fs.access is rejected only when the file is
\* missing, and the write of the empty list in readTasks succeeds.
Sound(r) ==
    /\ ioerr'[r] = ioerr[r]
    /\ pc[r] = "initWrite" => file' = EmptyList

\* A request takes the first free slot.
Slot(r) == pc[r] = "idle" /\ \A q \in 1..(r - 1) : pc[q] # "idle"

\* The page is loaded on a store that is empty or not there yet.
InitClient == Init /\ file.kind \in {"list", "missing"}

\* One page and the server: the user starts up to MaxGestures requests,
\* without waiting for the replies, and the server handles them
\* concurrently.  Reads are sound, a save can fail, a reply can be lost,
\* and all happens within one millisecond of the clock (the time stamps
\* play no part in the client but in the display order).
NextClient ==
    \/ \E r \in Reqs : Slot(r) /\ fetchTasks(r)
    \/ \E r \in Reqs, v \in Typed : Slot(r) /\ addTask(r, v)
    \/ \E r \in Reqs, i \in IdsOf(display) : Slot(r) /\ toggleTask(r, i)
    \/ \E r \in Reqs, i \in IdsOf(display) : Slot(r) /\ deleteTask(r, i)
    \/ \E r \in Reqs : Slot(r) /\ clearCompleted(r)
    \/ \E r \in Reqs : Slot(r) /\ clearAll(r)
    \/ \E r \in Reqs : Slot(r) /\ clearAllNext(r)
    \/ \E r \in Reqs : fetchTasksThen(r)
    \/ \E r \in Reqs : addTaskThen(r)
    \/ \E r \in Reqs : toggleTaskThen(r)
    \/ \E r \in Reqs : deleteTaskThen(r)
    \/ \E r \in Reqs : clearCompletedThen(r)
    \/ \E r \in Reqs : clearAllThen(r)
    \/ \E r \in Reqs : Drop(r) /\ UNCHANGED cvars
    \/ \E r \in Reqs : Access(r) /\ Sound(r) /\ clock' = clock
                          /\ UNCHANGED cvars
    \/ \E r \in Reqs : InitWrite(r) /\ Sound(r) /\ clock' = clock
                          /\ UNCHANGED cvars
    \/ \E r \in Reqs : ReadFile(r) /\ Sound(r) /\ clock' = clock
                          /\ UNCHANGED cvars
    \/ \E r \in Reqs : WriteFile(r) /\ clock' = clock /\ UNCHANGED cvars

SpecClient == InitClient /\ [][NextClient]_vars

\* ------------------------------------------------------- rendering alone
\* The tasks a cached array can hold.
Cached ==
    {[NewTask([ms |-> c, rnd |-> n], <<"a">>, c, c) EXCEPT !.completed = d] :
        c \in 0..MaxClock, n \in Rnds, d \in BOOLEAN}

\* The page with any array of at most MaxCache tasks, not rendered yet.
InitRender ==
    /\ InitStore
    /\ file = EmptyList
    /\ cache \in UNION {[1..n -> Cached] : n \in 0..MaxCache}
    /\ display = <<>>
    /\ notice = "none"
    /\ clr = NoClear
    /\ failed = FALSE
    /\ gestures = 0

\* renderTasks()
renderTasks ==
    /\ display' = SortedTasks(cache)
    /\ UNCHANGED <<file, clock, pc, op, text, id, loaded, towrite, resp,
                   pre, alone, ioerr, saves, toggled, loads, inits, early,
                   cache, notice, clr, failed, gestures>>

NextRender == renderTasks

SpecRender == InitRender /\ [][NextRender]_vars

\* ================================================================== claims
\* Request r has been answered with status st.
Answered(r, o, st) == pc[r] = "done" /\ op[r] = o /\ resp[r].status = st

\* The task a 201 or a 200 of PUT carries.
TaskOf(r) == resp[r].tasks[1]

\* out is s without its leading and trailing white space.
IsTrimOf(out, s) ==
    /\ out # <<>>
    /\ out[1] # " "
    /\ out[Len(out)] # " "
    /\ \E i \in 0..Len(s), j \in 0..Len(s) :
          /\ i + Len(out) + j = Len(s)
          /\ \A k \in 1..Len(s) :
                IF k <= i \/ k > i + Len(out) THEN s[k] = " "
                ELSE s[k] = out[k - i]

\* C1: a successful Add that ran alone leaves the file holding the previous
\* collection, unchanged and in order, followed by one new task, which is
\* the task of the reply, has the trimmed text and is not completed, and
\* is in the collection exactly once.
C1_AddAppendsOne ==
    \A r \in Reqs :
        Answered(r, "add", 201) /\ alone[r] =>
            /\ file = FileOf("list", Append(Collection(pre[r]), TaskOf(r)))
            /\ IsTrimOf(TaskOf(r).text, text[r].str)
            /\ TaskOf(r).completed = FALSE
            /\ Cardinality({i \in 1..Len(file.tasks) :
                              file.tasks[i] = TaskOf(r)}) = 1

\* A text the spec calls invalid: missing, not a string, empty or white
\* space only.
BadText(v) ==
    \/ v.type # "string"
    \/ \A k \in 1..Len(v.str) : v.str[k] = " "

\* C2: an Add whose text is missing, not a string, empty or white space
\* only is answered 400 in the step in which it arrives: the file is left
\* as it was, readTasks is never called and nothing is saved.
C2_InvalidTextRejected ==
    [][\A r \in Reqs :
          op'[r] = "add" /\ pc'[r] # "idle" /\ BadText(text'[r]) =>
              /\ pc'[r] = "done"
              /\ resp'[r] = Error(400)
              /\ loaded'[r] = NoLoad
              /\ saves'[r] = 0
              /\ pc[r] = "idle" => file' = file]_vars

\* C2 happens: a white-space-only text was refused while a task is stored.
C2_Witness ==
    \E r \in Reqs :
        /\ Answered(r, "add", 400)
        /\ text[r] = JsValue("string", 0, <<" ", " ">>)
        /\ Len(Collection(file)) >= 1

\* C3: a Toggle or Delete whose id matches no task of the loaded
\* collection is answered 404, and the persisted tasks are the same after
\* the request as before it.
C3_UnknownIdNotFound ==
    \A r \in Reqs :
        /\ pc[r] = "done"
        /\ op[r] \in {"toggle", "delete"}
        /\ loaded[r].kind = "list"
        /\ id[r] \notin IdsOf(loaded[r].tasks)
        => /\ resp[r] = Error(404)
           /\ alone[r] => Collection(file) = Collection(pre[r])

\* s without its element at position i.
RemoveAt(s, i) == SubSeq(s, 1, i - 1) \o SubSeq(s, i + 1, Len(s))

\* C4: a successful Delete that ran alone removes exactly one task: the
\* file holds the previous collection without one task, which has the id,
\* the others unchanged and in order; remainingTasks is its size; no task
\* has the id any more, so that a second Delete answers 404.
C4_DeleteRemovesOne ==
    \A r \in Reqs :
        Answered(r, "delete", 200) /\ alone[r] =>
            LET prev == Collection(pre[r])
            IN  /\ file.kind = "list"
                /\ Len(file.tasks) = Len(prev) - 1
                /\ \E i \in 1..Len(prev) :
                      prev[i].id = id[r] /\ file.tasks = RemoveAt(prev, i)
                /\ resp[r].remaining = Len(file.tasks)
                /\ id[r] \notin IdsOf(file.tasks)

\* The first position of list a whose task has id i.
FirstWith(a, i) ==
    CHOOSE k \in 1..Len(a) :
        a[k].id = i /\ \A j \in 1..(k - 1) : a[j].id # i

\* List b is list a but for the updatedAt of the first task with id i.
SameButUpdatedAt(a, b, i) ==
    /\ Len(b) = Len(a)
    /\ \A k \in 1..Len(a) :
          IF k = FirstWith(a, i)
          THEN b[k] = [a[k] EXCEPT !.updatedAt = b[k].updatedAt]
          ELSE b[k] = a[k]

\* C5: when a Toggle of id succeeds right after a successful Toggle of the
\* same id, both having run alone and nothing else having changed the file
\* in between, the collection is what it was before the first of the two
\* but for the updatedAt of the toggled task: its completed flag is
\* restored and its id, text, createdAt and position and every other task
\* are as they were.
C5_ToggleTwiceRestores ==
    [][\A r \in Reqs :
          /\ pc[r] = "write" /\ op[r] = "toggle" /\ alone[r]
          /\ Answered(r, "toggle", 200)'
          /\ toggled.n >= 1 /\ toggled.id = id[r]
          => /\ id[r] \in IdsOf(toggled.before)
             /\ SameButUpdatedAt(toggled.before, Collection(file'), id[r])]_vars

\* C5 happens: two toggles of one id in a row, with a second task stored.
C5_Witness ==
    /\ toggled.n = 2
    /\ Len(Collection(file)) = 2
    /\ \E r \in Reqs : Answered(r, "toggle", 200)

\* C6: ClearCompleted, having run alone and answered 200 on a collection
\* with N >= 1 completed and M active tasks, leaves exactly the M active
\* tasks, unchanged and in order, and reports cleared = N, remaining = M.
C6_ClearKeepsActive ==
    \A r \in Reqs :
        /\ Answered(r, "clear", 200) /\ alone[r]
        /\ Len(CompletedTasks(Collection(pre[r]))) >= 1
        => LET prev == Collection(pre[r])
           IN  /\ file = FileOf("list", ActiveTasks(prev))
               /\ \A i \in 1..Len(file.tasks) : ~file.tasks[i].completed
               /\ resp[r].cleared = Len(CompletedTasks(prev))
               /\ resp[r].remaining = Len(ActiveTasks(prev))

\* C7: ClearCompleted, having run alone on a collection with no completed
\* task, answers 200 with cleared = 0 and remaining = the size of the
\* collection, saves nothing and leaves the collection as it was.
C7_ClearNothing ==
    \A r \in Reqs :
        /\ pc[r] = "done" /\ op[r] = "clear" /\ alone[r]
        /\ pre[r].kind # "object"
        /\ Len(CompletedTasks(Collection(pre[r]))) = 0
        => /\ resp[r] = Reply(200, "summary", <<>>, 0, Len(Collection(pre[r])))
           /\ saves[r] = 0
           /\ Collection(file) = Collection(pre[r])

\* C8: the task of a successful Add has createdAt = updatedAt, in the
\* reply and in the array that is saved.
C8_CreatedIsUpdated ==
    \A r \in Reqs :
        Answered(r, "add", 201) =>
            /\ TaskOf(r).createdAt = TaskOf(r).updatedAt
            /\ \A i \in 1..Len(towrite[r]) :
                  towrite[r][i].id = TaskOf(r).id =>
                      towrite[r][i].createdAt = towrite[r][i].updatedAt

\* readTasks returns to the handler of request r in this step.
ReadTasksReturns(r) ==
    pc[r] \in {"initWrite", "readFile"} /\ pc'[r] \notin {"initWrite", "readFile"}

\* C9: readTasks always returns a list: the empty list, having written the
\* empty list to the file, when there is no file; the empty list when the
\* file is blank or unparseable; the stored list otherwise.
C9_LoadReturnsCollection ==
    [][\A r \in Reqs :
          ReadTasksReturns(r) =>
              /\ loaded'[r].kind = "list"
              /\ file.kind = "missing" =>
                    file' = EmptyList /\ loaded'[r].tasks = <<>>
              /\ file.kind \in {"blank", "garbage"} => loaded'[r].tasks = <<>>
              /\ file.kind = "list" => loaded'[r].tasks = file.tasks]_vars

\* C10: a List whose reading of the file met an I/O error answers 500, and
\* a List answers 200 on a stored list only with that list.
C10_ListSurfacesReadFailure ==
    \A r \in Reqs :
        pc[r] = "done" /\ op[r] = "list" =>
            /\ ioerr[r] => resp[r].status = 500
            /\ resp[r].status = 200 /\ alone[r] /\ pre[r].kind = "list" =>
                  resp[r] = Reply(200, "list", pre[r].tasks, 0, 0)

\* The routes that change the collection.
Mutating == {"add", "toggle", "delete", "clear"}

\* C11: when the fs.writeFile of writeTasks is rejected, the request is
\* answered 500 with an error body, whatever the operation: it never
\* keeps the success reply (201 or 200 with the task or the summary).
C11_SaveFailurePropagates ==
    [][\A r \in Reqs :
          /\ pc[r] = "write" /\ pc'[r] = "done"
          /\ saves'[r] = saves[r]
          => /\ op[r] \in Mutating
             /\ resp'[r] = Error(500)]_vars

\* C11 happens: an Add that loaded a list was answered 500, which only
\* a rejected save does, and the file was truncated by it.
C11_Witness ==
    \E r \in Reqs :
        /\ Answered(r, "add", 500)
        /\ loaded[r].kind = "list"
        /\ saves[r] = 0
        /\ pre[r].kind = "list" /\ file.kind = "blank"

\* No two tasks of list ts have one id.
UniqueIds(ts) ==
    \A i \in 1..Len(ts), j \in 1..Len(ts) : i # j => ts[i].id # ts[j].id

\* C12: no two tasks of the persisted collection have the same id, and
\* the id an Add gives its new task is the id of no task it loaded.
C12_IdsUnique ==
    /\ UniqueIds(Collection(file))
    /\ \A r \in Reqs :
          Answered(r, "add", 201) =>
              TaskOf(r).id \notin IdsOf(loaded[r].tasks)

\* The strictly increasing maps from the positions of list new to those
\* of list old, 0 standing for "not in old".
Origins(old, new) ==
    {f \in [1..Len(new) -> 0..Len(old)] :
        \A k \in 1..Len(new), l \in 1..Len(new) :
            k < l /\ f[k] # 0 /\ f[l] # 0 => f[k] < f[l]}

\* Request r saves in this step.
Saves(r) == pc[r] = "write" /\ saves'[r] = saves[r] + 1

\* C13: in every step, each task of the new persisted collection is
\* either the task an Add appends in this step or a task of the old
\* collection, in the old order, with the same id, text and createdAt;
\* its completed flag differs only if the step is the save of a Toggle of
\* its id.
C13_FrameOfTasks ==
    [][LET old == Collection(file)
           new == Collection(file')
       IN  \E f \in Origins(old, new) :
              \A k \in 1..Len(new) :
                 IF f[k] = 0
                 THEN /\ k = Len(new)
                      /\ \E r \in Reqs :
                            /\ Saves(r) /\ op[r] = "add"
                            /\ new[k] = resp[r].tasks[1]
                 ELSE /\ new[k].id = old[f[k]].id
                      /\ new[k].text = old[f[k]].text
                      /\ new[k].createdAt = old[f[k]].createdAt
                      /\ new[k].completed # old[f[k]].completed =>
                            \E r \in Reqs :
                               /\ Saves(r) /\ op[r] = "toggle"
                               /\ id[r] = new[k].id]_vars

\* C13 happens: a Delete has left a completed task, created earlier than
\* now, of another id in the collection.
C13_Witness ==
    \E r \in Reqs :
        /\ Answered(r, "delete", 200)
        /\ Len(Collection(file)) = 1
        /\ file.tasks[1].completed
        /\ file.tasks[1].id # id[r]
        /\ file.tasks[1].createdAt < clock

\* What the operation of request r makes of the collection it loaded.
Applied(r) ==
    LET snapshot == loaded[r].tasks
    IN  CASE op[r] = "add"    -> Append(snapshot, resp[r].tasks[1])
          [] op[r] = "toggle" ->
                [snapshot EXCEPT ![FirstWith(snapshot, id[r])] =
                                     resp[r].tasks[1]]
          [] op[r] = "delete" -> WithoutId(snapshot, id[r])
          [] op[r] = "clear"  -> ActiveTasks(snapshot)

\* Requests r and q have both saved and been answered with success, r
\* first, at a time when q had loaded and not saved yet.
Raced(r, q) ==
    /\ r # q
    /\ pc[r] = "done" /\ op[r] \in Mutating /\ resp[r].status \in {200, 201}
    /\ pc[q] = "done" /\ op[q] \in Mutating /\ resp[q].status \in {200, 201}
    /\ saves[r] = 1 /\ saves[q] = 1
    /\ early[r]

\* C17: when two mutating requests have raced and both were answered with
\* success, the file holds exactly the array of the later save, which is
\* the later request's operation applied to its own snapshot; the snapshot
\* is the collection as it was when the later request arrived (or the
\* empty one), so it has nothing of the earlier save: a task the earlier
\* request added, and acknowledged with 201, is not in the file.
C17_LaterWriteWins ==
    \A r \in Reqs, q \in Reqs :
        Raced(r, q) =>
            /\ file = FileOf("list", towrite[q])
            /\ towrite[q] = Applied(q)
            /\ loaded[q].tasks \in {Collection(pre[q]), <<>>}
            /\ /\ op[r] = "add"
               /\ resp[r].tasks[1].id \notin IdsOf(Collection(pre[q]))
               /\ op[q] = "add" => resp[q].tasks[1].id # resp[r].tasks[1].id
               => resp[r].tasks[1].id \notin IdsOf(file.tasks)

\* C17 happens: two Adds on the empty collection were both answered 201
\* and the file holds only the task of the later save.
C17_Witness ==
    \E r \in Reqs, q \in Reqs :
        /\ Raced(r, q)
        /\ op[r] = "add" /\ op[q] = "add"
        /\ resp[r].status = 201 /\ resp[q].status = 201
        /\ resp[r].tasks[1].id # resp[q].tasks[1].id
        /\ file.tasks = <<resp[q].tasks[1]>>

\* The handler awaiting request r takes its reply in this step; it is not
\* the loop of clearAll.
Takes(r, o) ==
    /\ pc[r] = "done" /\ pc'[r] = "idle" /\ op[r] = o
    /\ ~(clr.on /\ clr.req = r)

\* The loop of clearAll takes the reply to request r in this step.
LoopTakes(r) ==
    pc[r] = "done" /\ pc'[r] = "idle" /\ clr.on /\ clr.req = r

\* C14: when a request of addTask, toggleTask, deleteTask, clearCompleted
\* or clearAll fails (its status is not 2xx, or the fetch is rejected),
\* the handler alerts the user and does not apply its success effect: the
\* cached array stays as it is, and a clearAll of which a request has
\* failed does not empty it.
C14_FailureLeavesCache ==
    [][\A r \in Reqs :
          /\ \A o \in Mutating :
                Takes(r, o) /\ ~Ok(resp[r]) =>
                    notice' = "alert" /\ cache' = cache
          /\ LoopTakes(r) =>
                /\ ~Ok(resp[r]) => notice' = "alert"
                /\ ~Ok(resp[r]) \/ clr.bad => cache' = cache]_vars

\* List b is list a without its tasks of id i, in the order of a.
IsWithout(a, b, i) ==
    \E f \in Origins(a, b) :
        /\ \A k \in 1..Len(b) : f[k] # 0 /\ b[k] = a[f[k]]
        /\ \A k \in 1..Len(a) :
              (\E l \in 1..Len(b) : f[l] = k) <=> a[k].id # i

\* C15: the handler that takes a successful reply changes the cached array
\* by the id of its request only, whatever else is in flight or has been
\* applied before: toggleTask replaces one entry, which has the toggled
\* id, by the returned task, and nothing if no entry has the id;
\* deleteTask removes the entries of the deleted id and no other; addTask
\* appends the returned task; every other entry stays as and where it was.
C15_AppliedByIdentity ==
    [][\A r \in Reqs :
          /\ Takes(r, "toggle") /\ Ok(resp[r]) =>
                /\ Len(cache') = Len(cache)
                /\ id[r] \notin IdsOf(cache) => cache' = cache
                /\ id[r] \in IdsOf(cache) =>
                      \E k \in 1..Len(cache) :
                         /\ cache[k].id = id[r]
                         /\ cache'[k] = resp[r].tasks[1]
                         /\ \A j \in 1..Len(cache) :
                               j # k => cache'[j] = cache[j]
          /\ Takes(r, "delete") /\ Ok(resp[r]) =>
                IsWithout(cache, cache', id[r])
          /\ Takes(r, "add") /\ Ok(resp[r]) =>
                /\ Len(cache') = Len(cache) + 1
                /\ cache'[Len(cache')] = resp[r].tasks[1]
                /\ \A j \in 1..Len(cache) : cache'[j] = cache[j]]_vars

\* C15 happens: the second of two cached tasks has been replaced by the
\* completed task a toggle returned, the first being as it was, while the
\* reply to another request is still to be taken.
C15_Witness ==
    /\ Len(cache) = 2
    /\ ~cache[1].completed /\ cache[2].completed
    /\ cache[1].id # cache[2].id
    /\ \E r \in Reqs : pc[r] = "done" /\ op[r] \in Mutating /\ Ok(resp[r])

\* Every issued request has been handled and its reply applied.
Quiet == (\A r \in Reqs : pc[r] = "idle") /\ ~clr.on

\* C20: when no request of the client has failed and none is in flight,
\* the cached array and the persisted collection hold the same ids, each
\* once, and a cached task has the completed flag of the persisted task
\* of its id.
C20_CacheMirrorsStore ==
    Quiet /\ ~failed =>
        /\ IdsOf(cache) = IdsOf(Collection(file))
        /\ UniqueIds(cache)
        /\ UniqueIds(Collection(file))
        /\ \A i \in 1..Len(cache), j \in 1..Len(Collection(file)) :
              cache[i].id = file.tasks[j].id =>
                  cache[i].completed = file.tasks[j].completed

\* List b holds the tasks of list a, each as many times as a does.
IsPermutation(a, b) ==
    /\ Len(a) = Len(b)
    /\ \E p \in [1..Len(a) -> 1..Len(a)] :
          /\ \A i \in 1..Len(a), j \in 1..Len(a) : i # j => p[i] # p[j]
          /\ \A i \in 1..Len(a) : b[i] = a[p[i]]

\* C16: the list renderTasks displays is a permutation of the cached
\* array in which no completed task comes before an incomplete one and,
\* among the incomplete and among the completed tasks, no task comes
\* before one created later; the cached array is left as it was.
C16_DisplayOrder ==
    [][/\ IsPermutation(cache, display')
       /\ \A i \in 1..Len(display'), j \in 1..Len(display') :
             i < j =>
                 /\ display'[i].completed => display'[j].completed
                 /\ display'[i].completed = display'[j].completed =>
                        display'[i].createdAt >= display'[j].createdAt
       /\ cache' = cache]_vars

\* C16 happens: an array of MaxCache tasks that has a completed task before
\* an incomplete one, and an older task before a newer one, is displayed in
\* another order.
C16_Witness ==
    /\ Len(display) = MaxCache
    /\ display # cache
    /\ cache[1].completed /\ ~cache[2].completed
    /\ cache[2].createdAt < cache[3].createdAt
    /\ ~cache[3].completed

\* Request r has been answered with a 2xx status to a mutating operation.
Succeeded(r) ==
    pc[r] = "done" /\ op[r] \in Mutating /\ resp[r].status \in {200, 201}

\* C18 as stated: every successful mutating operation has called readTasks
\* once and writeTasks once, and has written the file at no other time.
C18_OneLoadOneSave ==
    \A r \in Reqs :
        Succeeded(r) => loads[r] = 1 /\ saves[r] = 1 /\ inits[r] = 0

\* C18 as amended: every successful mutating operation has called
\* readTasks once and then writeTasks once, but for a ClearCompleted that
\* found no completed task, which has not called writeTasks; no save comes
\* before the load; besides the save the file is written only by
\* readTasks itself, once, when fs.access was rejected (as it is when
\* there is no file), which can only be in an Add or a ClearCompleted.
C18_OneLoadThenSave ==
    \A r \in Reqs :
        /\ saves[r] > 0 => loads[r] = 1
        /\ Succeeded(r) =>
              /\ loads[r] = 1
              /\ saves[r] = IF op[r] = "clear" /\ resp[r].cleared = 0
                            THEN 0 ELSE 1
              /\ inits[r] <= 1
              /\ inits[r] = 1 => /\ pre[r].kind = "missing" \/ ioerr[r]
                                 /\ op[r] \in {"add", "clear"}
              /\ alone[r] /\ pre[r].kind = "missing" => inits[r] = 1

\* C18 happens: an Add that found no file has succeeded, having written
\* the file twice.
C18_Witness ==
    \E r \in Reqs :
        /\ Answered(r, "add", 201)
        /\ pre[r].kind = "missing"
        /\ inits[r] = 1 /\ saves[r] = 1 /\ loads[r] = 1

\* C19: the Toggle of a task sets its updatedAt to the clock read in the
\* toggle, which is strictly later than the updatedAt the task had, and
\* leaves its createdAt as it was; and createdAt <= updatedAt for every
\* persisted task.
C19_UpdatedAtAdvances ==
    [][/\ \A r \in Reqs :
             ReadTasksReturns(r) /\ op[r] = "toggle" /\ pc'[r] = "write" =>
                 LET before == loaded'[r].tasks
                     was    == before[FirstWith(before, id[r])]
                     now    == resp'[r].tasks[1]
                 IN  /\ now.updatedAt = clock
                     /\ now.updatedAt > was.updatedAt
                     /\ now.createdAt = was.createdAt
       /\ \A i \in 1..Len(Collection(file')) :
             file'.tasks[i].createdAt <= file'.tasks[i].updatedAt]_vars

\* C21: a step of a List request whose file system calls met no I/O error
\* leaves the persisted collection as it is, whatever the other requests
\* do meanwhile; so the write of [] in readTasks, started because
\* fs.access found no file, removes no task that another request has
\* saved since.
C21_ListLeavesCollection ==
    [][\A r \in Reqs :
          op[r] = "list" /\ pc'[r] # pc[r] /\ ~ioerr'[r]
              => Collection(file') = Collection(file)]_vars

====
